---- MODULE Spec2Model ----
(***************************************************************************)
(* Model of the asynchronous image-processing pipeline of the background   *)
(* remover: the upload handlers, the detached background wrapper, the      *)
(* ImageProcessor pipeline, the two process endpoints and the stores they  *)
(* write (the processed_images table and the two storage buckets).         *)
(*                                                                         *)
(* Every handler invocation is a task.  A task advances one await at a     *)
(* time: an action is the completion of the awaited call together with the *)
(* synchronous code that runs up to the next await.                        *)
(***************************************************************************)
EXTENDS Integers, Sequences, FiniteSets, TLC

(* ---------------------------- bounds ----------------------------------- *)
MaxRequests == 2
MaxTicks == 2        \* interval callbacks of the polling loop
MaxInflight == 2     \* status fetches of the view awaiting their response
MaxWaitTicks == 3    \* half-timeout periods a provider request is left waiting
MaxClockSteps == 1   \* times the clock jumps past one retention period
MaxSide == 7         \* largest image side and largest configured maximum, in pixels

(* ------------------------ program constants ---------------------------- *)
maxFileSize == 50 * 1024 * 1024
allowedFormats == {"image/jpeg", "image/png", "image/webp", "image/gif"}
RetentionMs == 24 * 60 * 60 * 1000
pollIntervalMs == 2000
timeoutMs == 60000

(* ------------------------------ inputs --------------------------------- *)
NoFile == [size |-> 0, type |-> "none"]
Files ==
  { [size |-> maxFileSize,     type |-> "image/gif"],
    [size |-> maxFileSize + 1, type |-> "image/png"],
    [size |-> 1,               type |-> "image/bmp"],
    NoFile }
SessionInputs == {"s1", ""}
NodeEnvs == {"production", "development", "test"}
ApiKeys == {"", "invalid-key", "valid-key"}
SourceFiles == {"background-removal.ts", "part_000"}
Entries == {"removeBackground", "removeBackgroundWithRemoveBg", "removeBackgroundWithClipdrop"}
Services == {"remove.bg", "clipdrop", "photoroom"}
ClipdropKeys == {"", "clipdrop-key"}
Components == {"ImageResult", "ImageEdit"}
DebugStatuses == {"pending", "completed"}
DebugUpdates ==
  {[status |-> ""], [status |-> "", error_message |-> <<"set by client">>],
   [status |-> "", file_size |-> 0]}
DbOutcomes == {"ok", "error"}
StorageOutcomes == {"ok", "error"}

TaskIds == 1..MaxRequests
NoId == 0
NULL == <<>>
Some(v) == <<v>>
NoJob == [status |-> "none"]

VARIABLES
  env,        \* process.env: NODE_ENV and REMOVE_BG_API_KEY
  now,        \* Date.now() / NOW(), in milliseconds
  db,         \* table processed_images, by id
  originals,  \* bucket original-images: the object keys it holds
  processed,  \* bucket processed-images: the object keys it holds
  tasks,      \* handler invocations, in arrival order
  view,       \* one mounted result view of the client and its polling loop
  call,       \* one invocation of BackgroundRemovalService.removeBackground
  resize,     \* one invocation of ImageProcessor.resizeIfNeeded
  answer      \* the latest response of a read-only page or endpoint

vars == <<env, now, db, originals, processed, tasks, view, call, resize, answer>>

(* ----------------------------- helpers --------------------------------- *)
Exists(d, id) == id \in DOMAIN d /\ d[id] # NoJob

\* uuidv4(): a value no client supplies and no other request generates
uuidv4(t) == "uuid-" \o ToString(t)

(* NextResponse.json(body, {status}): the fields of the body the handlers set *)
Resp(code, id, status, error, originalUrl, sessionId) ==
  [code |-> code, id |-> id, status |-> status, error |-> error,
   originalUrl |-> originalUrl, sessionId |-> sessionId]
NoResp == Resp(0, NoId, "", "", NoId, "")
ErrorResp(code, msg) == Resp(code, NoId, "", msg, NoId, "")
StatusResp(id, status) == Resp(200, id, status, "", NoId, "")

NewTask(kind, pc, id, file, session) ==
  [kind |-> kind, pc |-> pc, id |-> id, file |-> file, session |-> session,
   err |-> "", startTime |-> 0, expires |-> 0, resp |-> NoResp,
   \* history of the invocation
   inserted |-> 0,   \* rows it inserted
   cleanup |-> "",   \* outcome of its compensating blob removal
   log |-> <<>>,     \* status updates it issued and phases it ran, in order
   cause |-> "",     \* the first failure of its pipeline
   thrown |-> "",    \* the error its pipeline rejected with
   late |-> FALSE,   \* it issued a status update when the record was gone
   snapshot |-> NoJob, \* the row a delete request selected
   abandoned |-> <<>>] \* updates still in flight that lost their timeout race


validateFile_NoSizeCheck(file) ==
  IF file.type \notin allowedFormats THEN [valid |-> FALSE, error |-> "File type is not supported"]
  ELSE [valid |-> TRUE, error |-> ""]

(* ImageProcessor.validateFile *)
validateFile(file) ==
  IF file.size > maxFileSize THEN [valid |-> FALSE, error |-> "File size exceeds maximum allowed size"]
  ELSE IF file.type \notin allowedFormats THEN [valid |-> FALSE, error |-> "File type is not supported"]
  ELSE [valid |-> TRUE, error |-> ""]

validateConfig_NoKeyCheck(e) == [valid |-> TRUE, errors |-> <<>>]

(* BackgroundRemovalService.validateConfig, service = 'remove.bg' *)
validateConfig(e) ==
  [valid |-> ~(e.nodeEnv = "production" /\ e.apiKey = ""),
   errors |-> IF e.nodeEnv = "production" /\ e.apiKey = ""
              THEN <<"remove.bg API key is required in production">> ELSE <<>>]

(* the row the upload handlers insert *)
imageRecord(t, file, session, expires, created) ==
  [status |-> "pending", original_url |-> t, processed_url |-> NULL,
   error_message |-> NULL, file_size |-> file.size, processing_time_ms |-> NULL,
   user_session_id |-> session, expires_at |-> expires, created_at |-> created]

UpdateRow_Upsert(d, id, fields) ==
  LET row == IF Exists(d, id) THEN d[id] ELSE imageRecord(id, NoFile, "", 0, 0)
  IN [d EXCEPT ![id] = [k \in DOMAIN row |->
                          IF k \in DOMAIN fields THEN fields[k] ELSE row[k]]]

(* supabase .update(fields).eq('id', id): no row, no change, no error *)
UpdateRow(d, id, fields) ==
  IF Exists(d, id)
  THEN [d EXCEPT ![id] = [k \in DOMAIN d[id] |->
                            IF k \in DOMAIN fields THEN fields[k] ELSE d[id][k]]]
  ELSE d

SessionImages_AllSessions(d, sessionId) == {j \in DOMAIN d : Exists(d, j)}

(* GET /api/images/session/[sessionId]: the records the query selects *)
SessionImages(d, sessionId) ==
  {j \in DOMAIN d : Exists(d, j) /\ d[j].user_session_id = sessionId}

SetTask(t, r) == tasks' = [tasks EXCEPT ![t] = r]
Finish(t, r, resp) == SetTask(t, [r EXCEPT !.pc = "done", !.resp = resp])
HasPc(t, pc) == t \in 1..Len(tasks) /\ tasks[t].pc = pc

(* the result view before it is mounted *)
NoView ==
  [component |-> "", mounted |-> FALSE, isMounted |-> FALSE, imageId |-> NoId,
   timer |-> FALSE, nextFire |-> 0, inflight |-> <<>>, status |-> "", error |-> "",
   \* history of the view
   fetches |-> 0,      \* status fetches started
   ticks |-> 0,        \* interval callbacks run
   sawTerminal |-> FALSE,  \* a response with status completed or failed was handled
   sawFailure |-> FALSE,   \* a failed fetch was handled
   torn |-> FALSE]     \* the effect's cleanup ran

(* removeBackground before it is invoked *)
NoCall ==
  [state |-> "idle", file |-> "", entry |-> "", service |-> "", clipdropKey |-> "",
   abortTimer |-> FALSE, elapsed |-> 0, result |-> "", error |-> "",
   \* history of the invocation
   providerError |-> "",  \* what the provider method failed with
   mocked |-> FALSE]      \* mockBackgroundRemoval produced the result

(* one invocation of resizeIfNeeded: the image's metadata, the configured
   maxDimensions and the target dimensions handed to sharp *)
NoResize ==
  [state |-> "idle", width |-> 0, height |-> 0, maxWidth |-> 0, maxHeight |-> 0,
   newWidth |-> 0, newHeight |-> 0]

Sides == 1 .. MaxSide

(* the response of a read-only request: the session listing (images: ids in
   the order returned, total) or the share page (the URLs it renders) *)
NoAnswer ==
  [kind |-> "", code |-> 0, sessionId |-> "", id |-> NoId,
   images |-> <<>>, total |-> 0, processedUrl |-> NULL, originalUrl |-> NoId]

(* ------------------------------ Init ----------------------------------- *)
Init ==
  /\ env \in [nodeEnv : NodeEnvs, apiKey : ApiKeys]
  /\ now = 0
  /\ db = [i \in TaskIds |-> NoJob]
  /\ originals = {}
  /\ processed = {}
  /\ tasks = <<>>
  /\ view = NoView
  /\ call = NoCall
  /\ resize = NoResize
  /\ answer = NoAnswer

(* ------------------- upload handler (background variant) --------------- *)
(* POST /api/images/upload up to the first storage call *)
UploadStart ==
  /\ Len(tasks) < MaxRequests
  /\ \E file \in Files, sid \in SessionInputs, metaOk \in BOOLEAN :
       LET t == Len(tasks) + 1
           sessionId == IF sid = "" THEN uuidv4(t) ELSE sid
           r == NewTask("upload", "store", NoId, file, sessionId)
       IN tasks' = Append(tasks,
            IF file = NoFile
              THEN [r EXCEPT !.pc = "done", !.resp = ErrorResp(400, "No file provided")]
            ELSE IF ~validateFile(file).valid
              THEN [r EXCEPT !.pc = "done", !.resp = ErrorResp(400, validateFile(file).error)]
            ELSE IF ~validateConfig(env).valid
              THEN [r EXCEPT !.pc = "done", !.resp = ErrorResp(500, "Service configuration error")]
            ELSE IF ~metaOk
              THEN [r EXCEPT !.pc = "done", !.resp = ErrorResp(500, "Input buffer contains unsupported image format")]
            ELSE r)
  /\ UNCHANGED <<answer, view, call, resize, env, now, db, originals, processed>>

(* the upload of the original to bucket original-images answers; on
   success the handler builds imageRecord and issues the insert *)
UploadStoreOriginal(t) ==
  /\ HasPc(t, "store")
  /\ \E o \in StorageOutcomes :
       IF o = "ok"
       THEN /\ originals' = originals \cup {t}
            /\ SetTask(t, [tasks[t] EXCEPT !.pc = "insert", !.expires = now + RetentionMs])
       ELSE /\ originals' = originals
            /\ Finish(t, tasks[t], ErrorResp(500, "Failed to upload original image"))
  /\ UNCHANGED <<answer, view, call, resize, env, now, db, processed>>

(* supabase.storage.from(bucket).remove([key]) with the store's answer o *)
RemoveObject(bucket, key, o) == IF o = "ok" THEN bucket \ {key} ELSE bucket

UploadCleanup_NoRemoval(t) ==
  /\ HasPc(t, "cleanup")
  /\ \E o \in StorageOutcomes \cup {"throw"} :
       Finish(t, [tasks[t] EXCEPT !.cleanup = o],
              ErrorResp(500, "Failed to create image record"))
  /\ UNCHANGED <<answer, view, call, resize, env, now, db, originals, processed>>

(* the compensating removal of the original after a failed insert answers
   (an error result is not inspected, an exception is only logged) *)
UploadCleanup(t) ==
  /\ HasPc(t, "cleanup")
  /\ \E o \in StorageOutcomes \cup {"throw"} :
       /\ originals' = RemoveObject(originals, t, o)
       /\ Finish(t, [tasks[t] EXCEPT !.cleanup = o],
                 ErrorResp(500, "Failed to create image record"))
  /\ UNCHANGED <<answer, view, call, resize, env, now, db, processed>>

(* the insert answers; on success processImageInBackground is started and
   runs to its first await (the 'processing' update), then the handler
   returns the pending response *)
UploadInsert(t) ==
  /\ HasPc(t, "insert")
  /\ tasks[t].kind = "upload"
  /\ \E o \in DbOutcomes :
       IF o = "ok"
       THEN /\ db' = [db EXCEPT ![t] = imageRecord(t, tasks[t].file, tasks[t].session, tasks[t].expires, now)]
            /\ SetTask(t, [tasks[t] EXCEPT !.pc = "bg_processing", !.id = t, !.inserted = 1,
                 !.resp = Resp(200, t, "pending", "", t, tasks[t].session)])
       ELSE /\ db' = db
            /\ SetTask(t, [tasks[t] EXCEPT !.pc = "cleanup"])
  /\ UNCHANGED <<answer, view, call, resize, env, now, originals, processed>>

(* ------------------- BackgroundRemovalService.removeBackground --------- *)
(* what the call to remove.bg can answer with the configured key *)
RemoveBgProviderOutcomes(e) ==
  IF e.apiKey = "" THEN {"Remove.bg API key is not configured"}
  ELSE IF e.apiKey = "invalid-key" THEN {"Remove.bg API error: 403", "fetch failed"}
  ELSE {"ok", "Remove.bg API error: 402", "fetch failed"}

(* removeBackground: in development a failed provider call falls back to
   the mock, which returns its input; otherwise the failure is rethrown *)
removeBackground(e) ==
  { IF o # "ok" /\ e.nodeEnv = "development" THEN "ok" ELSE o :
      o \in RemoveBgProviderOutcomes(e) }

(* ------------------- history and error bookkeeping --------------------- *)
Logged(r, entry) ==
  [r EXCEPT !.log = Append(r.log, entry),
            !.late = r.late \/ (entry \in {"processing", "completed", "failed"}
                                 /\ ~Exists(db, r.id))]
Failed(r, e) == [r EXCEPT !.err = e, !.cause = IF r.cause = "" THEN e ELSE r.cause]

(* the fields the three kinds of status update set *)
ProcessingFields == [status |-> "processing"]
CompletedFields(url, ms) ==
  [status |-> "completed", processed_url |-> Some(url), processing_time_ms |-> Some(ms)]
FailedFields(msg) == [status |-> "failed", error_message |-> Some(msg)]
FailedFieldsTimed(msg, ms) ==
  [status |-> "failed", error_message |-> Some(msg), processing_time_ms |-> Some(ms)]

(* the table after an update that the store answered with o *)
Updated(d, id, fields, o) == IF o = "ok" THEN UpdateRow(d, id, fields) ELSE d

(* ------------------- ImageProcessor.processImage ----------------------- *)
(* processImage is entered by processImageInBackground (kind "upload") and
   by the process-by-id endpoint (kind "processById").  Its caller resumes
   in Return (normal completion) or Throw (rejection).                     *)
TypeErrorMsg == "Cannot read properties of undefined (reading 'filePath')"

(* the caller's code after 'await imageProcessor.processImage(...)':
   processImageInBackground reads processingResult.uploadData.filePath of a
   result that has no uploadData, which throws inside its try block and
   leads to its catch and the 'failed' update *)
Return(r) ==
  IF r.kind = "upload"
  THEN [Failed(r, TypeErrorMsg) EXCEPT !.pc = "bg_failed"]
  ELSE [r EXCEPT !.pc = "done", !.resp = StatusResp(r.id, "completed")]

(* the caller's catch block *)
Throw(r, e) ==
  IF r.kind = "upload"
  THEN [r EXCEPT !.pc = "bg_failed", !.err = e]
  ELSE [r EXCEPT !.pc = "done", !.err = e, !.thrown = e, !.resp = ErrorResp(500, e)]

(* processImage's catch block up to its await of the 'failed' update *)
Catch(r, e) == [Failed(r, e) EXCEPT !.pc = "pi_failed"]

(* updateProcessingStatus(imageId, 'processing') answers *)
updateProcessingStatus_processing(t) ==
  /\ HasPc(t, "pi_processing")
  /\ \E o \in DbOutcomes :
       LET r == Logged(tasks[t], "processing")
       IN /\ db' = Updated(db, r.id, ProcessingFields, o)
          /\ SetTask(t, IF o = "ok" THEN [r EXCEPT !.pc = "pi_resize"]
                        ELSE Catch(r, "Failed to update processing status"))
  /\ UNCHANGED <<answer, view, call, resize, env, now, originals, processed>>

(* Step 1: resizeIfNeeded answers *)
resizeIfNeeded(t) ==
  /\ HasPc(t, "pi_resize")
  /\ \E ok \in BOOLEAN :
       LET r == Logged(tasks[t], "resize")
       IN SetTask(t, IF ok THEN [r EXCEPT !.pc = "pi_removebg"]
                     ELSE Catch(r, "resize failed"))
  /\ UNCHANGED <<answer, view, call, resize, env, now, db, originals, processed>>

(* Step 2: removeBackgroundFn answers *)
removeBackgroundFn(t) ==
  /\ HasPc(t, "pi_removebg")
  /\ \E o \in removeBackground(env) :
       LET r == Logged(tasks[t], "removeBackground")
       IN SetTask(t, IF o = "ok" THEN [r EXCEPT !.pc = "pi_flip"] ELSE Catch(r, o))
  /\ UNCHANGED <<answer, view, call, resize, env, now, db, originals, processed>>

(* Step 3: flipHorizontally answers *)
flipHorizontally(t) ==
  /\ HasPc(t, "pi_flip")
  /\ \E ok \in BOOLEAN :
       LET r == Logged(tasks[t], "flip")
       IN SetTask(t, IF ok THEN [r EXCEPT !.pc = "pi_convert"]
                     ELSE Catch(r, "flip failed"))
  /\ UNCHANGED <<answer, view, call, resize, env, now, db, originals, processed>>

(* Step 4: convertToOutputFormat answers *)
convertToOutputFormat(t) ==
  /\ HasPc(t, "pi_convert")
  /\ \E ok \in BOOLEAN :
       LET r == Logged(tasks[t], "encode")
       IN SetTask(t, IF ok THEN [r EXCEPT !.pc = "pi_upload"]
                     ELSE Catch(r, "encode failed"))
  /\ UNCHANGED <<answer, view, call, resize, env, now, db, originals, processed>>

uploadToStorage_IgnoresError(t) ==
  /\ HasPc(t, "pi_upload")
  /\ \E o \in StorageOutcomes :
       LET r == Logged(tasks[t], "persist")
       IN /\ processed' = IF o = "ok" THEN processed \cup {t} ELSE processed
          /\ SetTask(t, [r EXCEPT !.pc = "pi_completed"])
  /\ UNCHANGED <<answer, view, call, resize, env, now, db, originals>>

(* Step 5: uploadToStorage answers; the object key is fresh per run *)
uploadToStorage(t) ==
  /\ HasPc(t, "pi_upload")
  /\ \E o \in StorageOutcomes :
       LET r == Logged(tasks[t], "persist")
       IN /\ processed' = IF o = "ok" THEN processed \cup {t} ELSE processed
          /\ SetTask(t, IF o = "ok" THEN [r EXCEPT !.pc = "pi_completed"]
                        ELSE Catch(r, "Failed to upload to storage"))
  /\ UNCHANGED <<answer, view, call, resize, env, now, db, originals>>

(* Step 6: updateProcessingStatus(imageId, 'completed', {...}) answers *)
updateProcessingStatus_completed(t) ==
  /\ HasPc(t, "pi_completed")
  /\ \E o \in DbOutcomes :
       LET r == Logged(tasks[t], "completed")
       IN /\ db' = Updated(db, r.id, CompletedFields(t, now - r.startTime), o)
          /\ SetTask(t, IF o = "ok" THEN Return(r)
                        ELSE Catch(r, "Failed to update processing status"))
  /\ UNCHANGED <<answer, view, call, resize, env, now, originals, processed>>

(* catch: updateProcessingStatus(imageId, 'failed', {...}) answers; then the
   caught error is rethrown, unless the update itself threw *)
updateProcessingStatus_failed(t) ==
  /\ HasPc(t, "pi_failed")
  /\ \E o \in DbOutcomes :
       LET r == Logged(tasks[t], "failed")
       IN /\ db' = Updated(db, r.id, FailedFieldsTimed(r.err, now - r.startTime), o)
          /\ SetTask(t, Throw(r, IF o = "ok" THEN r.err
                                 ELSE "Failed to update processing status"))
  /\ UNCHANGED <<answer, view, call, resize, env, now, originals, processed>>

(* ------------------- processImageInBackground -------------------------- *)
(* Step 1 of the wrapper: its own 'processing' update answers; on success
   it calls processImage, which runs to its first await *)
processImageInBackground_processing(t) ==
  /\ HasPc(t, "bg_processing")
  /\ \E o \in DbOutcomes :
       LET r == Logged(tasks[t], "processing")
       IN /\ db' = Updated(db, r.id, ProcessingFields, o)
          /\ SetTask(t, IF o = "ok"
                        THEN [r EXCEPT !.pc = "pi_processing", !.startTime = now]
                        ELSE [Failed(r, "Failed to update status") EXCEPT !.pc = "bg_failed"])
  /\ UNCHANGED <<answer, view, call, resize, env, now, originals, processed>>

(* the wrapper's catch: its 'failed' update answers (an error result is not
   inspected, an exception is only logged); the caught error is rethrown to
   the .catch of the upload handler *)
processImageInBackground_failed(t) ==
  /\ HasPc(t, "bg_failed")
  /\ \E o \in DbOutcomes \cup {"throw"} :
       LET r == Logged(tasks[t], "failed")
       IN /\ db' = Updated(db, r.id, FailedFields(r.err), o)
          /\ SetTask(t, [r EXCEPT !.pc = "done", !.thrown = r.err])
  /\ UNCHANGED <<answer, view, call, resize, env, now, originals, processed>>

(* ------------------- upload handler (inline variant) ------------------- *)
(* the second POST of upload/route.ts up to the first storage call: inline
   validation, no configuration check, no metadata read *)
UploadInlineStart ==
  /\ Len(tasks) < MaxRequests
  /\ \E file \in Files, sid \in SessionInputs :
       LET t == Len(tasks) + 1
           sessionId == IF sid = "" THEN uuidv4(t) ELSE sid
           r == NewTask("uploadInline", "store", NoId, file, sessionId)
       IN tasks' = Append(tasks,
            IF file = NoFile
              THEN [r EXCEPT !.pc = "done", !.resp = ErrorResp(400, "No file provided")]
            ELSE IF file.size > maxFileSize
              THEN [r EXCEPT !.pc = "done", !.resp = ErrorResp(400, "File size exceeds maximum allowed size")]
            ELSE IF file.type \notin allowedFormats
              THEN [r EXCEPT !.pc = "done", !.resp = ErrorResp(400, "File type is not supported")]
            ELSE r)
  /\ UNCHANGED <<answer, view, call, resize, env, now, db, originals, processed>>

(* the insert answers; on success the inline processing starts with the
   'processing' update *)
UploadInlineInsert(t) ==
  /\ HasPc(t, "insert")
  /\ tasks[t].kind = "uploadInline"
  /\ \E o \in DbOutcomes :
       IF o = "ok"
       THEN /\ db' = [db EXCEPT ![t] = imageRecord(t, tasks[t].file, tasks[t].session, tasks[t].expires, now)]
            /\ SetTask(t, [tasks[t] EXCEPT !.pc = "in_processing", !.id = t, !.inserted = 1])
       ELSE /\ db' = db
            /\ SetTask(t, [tasks[t] EXCEPT !.pc = "cleanup"])
  /\ UNCHANGED <<answer, view, call, resize, env, now, originals, processed>>

(* Step 1 inline: the 'processing' update answers *)
UploadInlineProcessing(t) ==
  /\ HasPc(t, "in_processing")
  /\ \E o \in DbOutcomes :
       LET r == Logged(tasks[t], "processing")
       IN /\ db' = Updated(db, r.id, ProcessingFields, o)
          /\ SetTask(t, IF o = "ok" THEN [r EXCEPT !.pc = "in_upload"]
                        ELSE [Failed(r, "Failed to update status") EXCEPT !.pc = "in_failed"])
  /\ UNCHANGED <<answer, view, call, resize, env, now, originals, processed>>

(* Step 2 inline: the upload of the (unprocessed) buffer to processed-images *)
UploadInlineStoreProcessed(t) ==
  /\ HasPc(t, "in_upload")
  /\ \E o \in StorageOutcomes :
       LET r == Logged(tasks[t], "persist")
       IN /\ processed' = IF o = "ok" THEN processed \cup {t} ELSE processed
          /\ SetTask(t, IF o = "ok" THEN [r EXCEPT !.pc = "in_completed"]
                        ELSE [Failed(r, "Upload failed") EXCEPT !.pc = "in_failed"])
  /\ UNCHANGED <<answer, view, call, resize, env, now, db, originals>>

(* Step 3 inline: the 'completed' update answers; an error is logged and
   the handler answers 'completed' anyway *)
UploadInlineCompleted(t) ==
  /\ HasPc(t, "in_completed")
  /\ \E o \in DbOutcomes :
       LET r == Logged(tasks[t], "completed")
       IN /\ db' = Updated(db, r.id, CompletedFields(t, 0), o)
          /\ Finish(t, r, Resp(200, r.id, "completed", "", t, r.session))
  /\ UNCHANGED <<answer, view, call, resize, env, now, originals, processed>>

(* catch inline: the 'failed' update answers; the handler answers 'failed' *)
UploadInlineFailed(t) ==
  /\ HasPc(t, "in_failed")
  /\ \E o \in DbOutcomes \cup {"throw"} :
       LET r == Logged(tasks[t], "failed")
       IN /\ db' = Updated(db, r.id, FailedFields(r.err), o)
          /\ Finish(t, [r EXCEPT !.thrown = r.err],
                    Resp(200, r.id, "failed", r.err, t, r.session))
  /\ UNCHANGED <<answer, view, call, resize, env, now, originals, processed>>

(* ------------------- POST /api/images/[id]/process --------------------- *)
(* the select of the record answers; the handler returns early or issues
   its 'processing' update *)
ProcessStart ==
  /\ Len(tasks) < MaxRequests
  /\ \E id \in TaskIds \cup {NoId} :
       LET r == NewTask("process", "pr_processing", id, NoFile, "")
       IN tasks' = Append(tasks,
            IF id = NoId
              THEN [r EXCEPT !.pc = "done", !.resp = ErrorResp(400, "Image ID is required")]
            ELSE IF ~Exists(db, id)
              THEN [r EXCEPT !.pc = "done", !.resp = ErrorResp(404, "Image not found")]
            ELSE IF db[id].status = "completed"
              THEN [r EXCEPT !.pc = "done", !.resp = StatusResp(id, "completed")]
            ELSE IF db[id].status = "processing"
              THEN [r EXCEPT !.pc = "done", !.resp = StatusResp(id, "processing")]
            ELSE IF ~validateConfig(env).valid
              THEN [r EXCEPT !.pc = "done", !.resp = ErrorResp(500, "Service configuration error")]
            ELSE r)
  /\ UNCHANGED <<answer, view, call, resize, env, now, db, originals, processed>>

(* the outer catch of the handler up to its await of the 'failed' update *)
ProcessCatch(r, e) == [Failed(r, e) EXCEPT !.pc = "pr_failed"]

(* the 'processing' update answers; on success the original is fetched *)
ProcessProcessing(t) ==
  /\ HasPc(t, "pr_processing")
  /\ \E o \in DbOutcomes :
       LET r == Logged(tasks[t], "processing")
       IN /\ db' = Updated(db, r.id, ProcessingFields, o)
          /\ SetTask(t, IF o = "ok" THEN [r EXCEPT !.pc = "pr_fetch"]
                        ELSE ProcessCatch(r, "Failed to update processing status"))
  /\ UNCHANGED <<answer, view, call, resize, env, now, originals, processed>>

(* fetchImageFromStorage answers; on success processImageSynchronously
   starts the buffer pipeline *)
fetchImageFromStorage(t) ==
  /\ HasPc(t, "pr_fetch")
  /\ \E o \in StorageOutcomes :
       SetTask(t, IF o = "ok" /\ tasks[t].id \in originals
                  THEN [tasks[t] EXCEPT !.pc = "ps_pipeline", !.startTime = now]
                  ELSE ProcessCatch(tasks[t], "Failed to fetch image from storage"))
  /\ UNCHANGED <<answer, view, call, resize, env, now, db, originals, processed>>

(* the catch of processImageSynchronously up to its 'failed' update *)
SyncCatch(r, e) == [Failed(r, e) EXCEPT !.pc = "ps_failed"]

(* phases 1-4 on the buffer (resize, background removal, flip, encode):
   what they end with, and the phases that ran for each ending *)
processImageBufferOutcomes(e) ==
  {"resize failed"} \cup removeBackground(e)
    \cup (IF "ok" \in removeBackground(e) THEN {"flip failed", "encode failed"} ELSE {})

PhasesRun(o) ==
  IF o = "resize failed" THEN <<"resize">>
  ELSE IF o = "flip failed" THEN <<"resize", "removeBackground", "flip">>
  ELSE IF o \in {"encode failed", "ok"} THEN <<"resize", "removeBackground", "flip", "encode">>
  ELSE <<"resize", "removeBackground">>

processImageBuffer(t) ==
  /\ HasPc(t, "ps_pipeline")
  /\ \E o \in processImageBufferOutcomes(env) :
       LET r == [tasks[t] EXCEPT !.log = tasks[t].log \o PhasesRun(o)]
       IN SetTask(t, IF o = "ok" THEN [r EXCEPT !.pc = "ps_upload"] ELSE SyncCatch(r, o))
  /\ UNCHANGED <<answer, view, call, resize, env, now, db, originals, processed>>

(* Step 5: uploadProcessedImageToStorage answers *)
uploadProcessedImageToStorage(t) ==
  /\ HasPc(t, "ps_upload")
  /\ \E o \in StorageOutcomes :
       LET r == Logged(tasks[t], "persist")
       IN /\ processed' = IF o = "ok" THEN processed \cup {t} ELSE processed
          /\ SetTask(t, IF o = "ok" THEN [r EXCEPT !.pc = "ps_completed"]
                        ELSE SyncCatch(r, "Failed to upload to storage"))
  /\ UNCHANGED <<answer, view, call, resize, env, now, db, originals>>

(* Step 6: the 'completed' update answers; the result is returned *)
processImageSynchronously_completed(t) ==
  /\ HasPc(t, "ps_completed")
  /\ \E o \in DbOutcomes :
       LET r == Logged(tasks[t], "completed")
       IN /\ db' = Updated(db, r.id, CompletedFields(t, now - r.startTime), o)
          /\ SetTask(t, IF o = "ok"
                        THEN [r EXCEPT !.pc = "done", !.resp = StatusResp(r.id, "completed")]
                        ELSE SyncCatch(r, "Failed to update completion status"))
  /\ UNCHANGED <<answer, view, call, resize, env, now, originals, processed>>

(* the catch of processImageSynchronously: its 'failed' update answers (the
   result is not inspected), the error is rethrown to the handler's catch *)
processImageSynchronously_failed(t) ==
  /\ HasPc(t, "ps_failed")
  /\ \E o \in DbOutcomes :
       LET r == Logged(tasks[t], "failed")
       IN /\ db' = Updated(db, r.id, FailedFieldsTimed(r.err, now - r.startTime), o)
          /\ SetTask(t, ProcessCatch(r, r.err))
  /\ UNCHANGED <<answer, view, call, resize, env, now, originals, processed>>

(* the handler's catch: its 'failed' update answers, then the 500 response *)
ProcessFailed(t) ==
  /\ HasPc(t, "pr_failed")
  /\ \E o \in DbOutcomes \cup {"throw"} :
       LET r == Logged(tasks[t], "failed")
       IN /\ db' = Updated(db, r.id, FailedFields(r.err), o)
          /\ Finish(t, [r EXCEPT !.thrown = r.err], ErrorResp(500, r.err))
  /\ UNCHANGED <<answer, view, call, resize, env, now, originals, processed>>

(* ------------------- POST process by image id (request body) ----------- *)
(* the select answers; only a pending record is processed *)
ProcessByIdStart ==
  /\ Len(tasks) < MaxRequests
  /\ \E id \in TaskIds \cup {NoId} :
       LET r == NewTask("processById", "pl_processing", id, NoFile, "")
       IN tasks' = Append(tasks,
            IF id = NoId
              THEN [r EXCEPT !.pc = "done", !.resp = ErrorResp(400, "Image ID is required")]
            ELSE IF ~Exists(db, id)
              THEN [r EXCEPT !.pc = "done", !.resp = ErrorResp(404, "Image not found")]
            ELSE IF db[id].status # "pending"
              THEN [r EXCEPT !.pc = "done", !.resp = StatusResp(id, db[id].status)]
            ELSE r)
  /\ UNCHANGED <<answer, view, call, resize, env, now, db, originals, processed>>

(* the 'processing' update answers (its result is not inspected); the
   download of the original is issued *)
ProcessByIdProcessing(t) ==
  /\ HasPc(t, "pl_processing")
  /\ \E o \in DbOutcomes :
       LET r == Logged(tasks[t], "processing")
       IN /\ db' = Updated(db, r.id, ProcessingFields, o)
          /\ SetTask(t, [r EXCEPT !.pc = "pl_download"])
  /\ UNCHANGED <<answer, view, call, resize, env, now, originals, processed>>

(* the download answers; on success processImage is called and runs to its
   first await, otherwise the 'failed' update is issued *)
ProcessByIdDownload(t) ==
  /\ HasPc(t, "pl_download")
  /\ \E o \in StorageOutcomes :
       SetTask(t, IF o = "ok" /\ tasks[t].id \in originals
                  THEN [tasks[t] EXCEPT !.pc = "pi_processing", !.startTime = now]
                  ELSE [Failed(tasks[t], "Failed to download original file")
                          EXCEPT !.pc = "pl_dlfailed"])
  /\ UNCHANGED <<answer, view, call, resize, env, now, db, originals, processed>>

(* the 'failed' update after a failed download answers; then the 500 *)
ProcessByIdDownloadFailed(t) ==
  /\ HasPc(t, "pl_dlfailed")
  /\ \E o \in DbOutcomes :
       LET r == Logged(tasks[t], "failed")
       IN /\ db' = Updated(db, r.id, FailedFields(r.err), o)
          /\ Finish(t, [r EXCEPT !.thrown = r.err], ErrorResp(500, r.err))
  /\ UNCHANGED <<answer, view, call, resize, env, now, originals, processed>>

(* ------------------- DELETE /api/images/[id] --------------------------- *)
DeletedResp(id) == Resp(200, id, "", "", NoId, "")

DeleteStart_NoRowCheck ==
  /\ Len(tasks) < MaxRequests
  /\ \E id \in TaskIds \cup {NoId}, o \in DbOutcomes :
       LET r == NewTask("delete", "dl_delete", id, NoFile, "")
       IN tasks' = Append(tasks,
            IF id = NoId
              THEN [r EXCEPT !.pc = "done", !.resp = ErrorResp(400, "Image ID is required")]
            ELSE [r EXCEPT !.snapshot = db[id]])
  /\ UNCHANGED <<answer, view, call, resize, env, now, db, originals, processed>>

(* the select of the record answers; without a row the handler answers
   404, otherwise it keeps the row and issues the delete of the record *)
DeleteStart ==
  /\ Len(tasks) < MaxRequests
  /\ \E id \in TaskIds \cup {NoId}, o \in DbOutcomes :
       LET r == NewTask("delete", "dl_delete", id, NoFile, "")
       IN tasks' = Append(tasks,
            IF id = NoId
              THEN [r EXCEPT !.pc = "done", !.resp = ErrorResp(400, "Image ID is required")]
            ELSE IF o = "error" \/ ~Exists(db, id)
              THEN [r EXCEPT !.pc = "done", !.resp = ErrorResp(404, "Image not found")]
            ELSE [r EXCEPT !.snapshot = db[id]])
  /\ UNCHANGED <<answer, view, call, resize, env, now, db, originals, processed>>

(* the delete of the record answers; on an error the handler answers 500,
   otherwise it issues the removal of the original blob *)
DeleteRecord(t) ==
  /\ HasPc(t, "dl_delete")
  /\ \E o \in DbOutcomes :
       LET r == Logged(tasks[t], "delete record")
       IN IF o = "ok"
          THEN /\ db' = [db EXCEPT ![r.id] = NoJob]
               /\ SetTask(t, [r EXCEPT !.pc = "dl_rm_original"])
          ELSE /\ db' = db
               /\ Finish(t, r, ErrorResp(500, "Failed to delete image record"))
  /\ UNCHANGED <<answer, view, call, resize, env, now, originals, processed>>

(* the removal of the original answers (its result is not inspected); an
   exception leaves the try block; otherwise the removal of the processed
   blob is issued when the selected row had a processed_url *)
DeleteRemoveOriginal(t) ==
  /\ HasPc(t, "dl_rm_original")
  /\ \E o \in StorageOutcomes \cup {"throw"} :
       LET r == Logged(tasks[t], "remove original")
       IN /\ originals' = RemoveObject(originals, r.snapshot.original_url, o)
          /\ IF o # "throw" /\ r.snapshot.processed_url # NULL
             THEN SetTask(t, [r EXCEPT !.pc = "dl_rm_processed"])
             ELSE Finish(t, r, DeletedResp(r.id))
  /\ UNCHANGED <<answer, view, call, resize, env, now, db, processed>>

(* the removal of the processed blob answers; the handler answers success *)
DeleteRemoveProcessed(t) ==
  /\ HasPc(t, "dl_rm_processed")
  /\ \E o \in StorageOutcomes \cup {"throw"} :
       LET r == Logged(tasks[t], "remove processed")
       IN /\ processed' = RemoveObject(processed, r.snapshot.processed_url[1], o)
          /\ Finish(t, r, DeletedResp(r.id))
  /\ UNCHANGED <<answer, view, call, resize, env, now, db, originals>>

(* ------------------- POST debug database update (part_010) ------------- *)
(* the request body's status and updates are written to the row of imageId *)
DebugUpdate ==
  /\ Len(tasks) < MaxRequests
  /\ \E imageId \in TaskIds \cup {NoId}, status \in DebugStatuses,
        updates \in DebugUpdates, o \in DbOutcomes :
       LET r == NewTask("debug", "done", imageId, NoFile, "")
           updateData == [updates EXCEPT !.status = status]
       IN IF imageId = NoId
          THEN /\ db' = db
               /\ tasks' = Append(tasks, [r EXCEPT !.resp = ErrorResp(400, "Missing imageId or status")])
          ELSE /\ db' = Updated(db, imageId, updateData, o)
               /\ tasks' = Append(tasks,
                    [r EXCEPT !.resp = IF o = "ok" THEN StatusResp(imageId, "success")
                                       ELSE ErrorResp(500, "Database update failed")])
  /\ UNCHANGED <<answer, view, call, resize, env, now, originals, processed>>

(* ------------------- GET /api/images/[id] ------------------------------ *)
NetworkError == ErrorResp(0, "Failed to fetch")

(* the handler's response for the answer o of its select *)
getStatus(d, id, o) ==
  IF id = NoId THEN ErrorResp(400, "Image ID is required")
  ELSE IF o = "error" \/ ~Exists(d, id) THEN ErrorResp(404, "Image not found")
  ELSE Resp(200, id, d[id].status,
            IF d[id].error_message = NULL THEN "" ELSE d[id].error_message[1],
            d[id].original_url, "")

(* one status fetch of the view is served (or is lost on the network) *)
GET ==
  /\ \E i \in 1..Len(view.inflight), o \in DbOutcomes \cup {"network"} :
       /\ view.inflight[i] = NoResp
       /\ view' = [view EXCEPT !.inflight[i] =
                     IF o = "network" THEN NetworkError
                     ELSE getStatus(db, view.imageId, o)]
  /\ UNCHANGED <<answer, call, resize, env, now, db, originals, processed, tasks>>

(* ------------------- the polling effect of the result views ------------ *)
RemoveAt(q, i) == [k \in 1..(Len(q) - 1) |-> IF k < i THEN q[k] ELSE q[k + 1]]

(* useEffect on mount: pollStatus() runs to its fetch, then setInterval *)
ViewMount ==
  /\ view = NoView
  /\ \E c \in Components, id \in TaskIds :
       view' = [NoView EXCEPT !.component = c, !.mounted = TRUE, !.isMounted = TRUE,
                              !.imageId = id, !.inflight = <<NoResp>>, !.fetches = 1,
                              !.timer = TRUE, !.nextFire = now + pollIntervalMs]
  /\ UNCHANGED <<answer, call, resize, env, now, db, originals, processed, tasks>>

(* the interval fires: pollStatus() runs to its fetch *)
ViewTick ==
  /\ view.timer
  /\ view.ticks < MaxTicks
  /\ Len(view.inflight) < MaxInflight
  /\ view' = IF view.component = "ImageEdit" /\ ~view.isMounted
             THEN [view EXCEPT !.ticks = @ + 1, !.nextFire = @ + pollIntervalMs]
             ELSE [view EXCEPT !.ticks = @ + 1, !.nextFire = @ + pollIntervalMs,
                               !.inflight = Append(@, NoResp), !.fetches = @ + 1]
  /\ UNCHANGED <<answer, call, resize, env, now, db, originals, processed, tasks>>

pollStatus_KeepsTimerOnTerminal ==
  /\ \E i \in 1..Len(view.inflight) :
       LET resp == view.inflight[i]
           v == [view EXCEPT !.inflight = RemoveAt(@, i)]
       IN /\ resp # NoResp
          /\ view' =
               IF v.component = "ImageEdit" /\ ~v.isMounted THEN v
               ELSE IF resp.code \in 200..299
               THEN IF resp.status \in {"completed", "failed"}
                    THEN [v EXCEPT !.status = resp.status, !.sawTerminal = TRUE]
                    ELSE [v EXCEPT !.status = resp.status]
               ELSE [v EXCEPT !.error = resp.error, !.timer = FALSE, !.sawFailure = TRUE]
  /\ UNCHANGED <<answer, call, resize, env, now, db, originals, processed, tasks>>

pollStatus_KeepsTimerOnError ==
  /\ \E i \in 1..Len(view.inflight) :
       LET resp == view.inflight[i]
           v == [view EXCEPT !.inflight = RemoveAt(@, i)]
       IN /\ resp # NoResp
          /\ view' =
               IF v.component = "ImageEdit" /\ ~v.isMounted THEN v
               ELSE IF resp.code \in 200..299
               THEN IF resp.status \in {"completed", "failed"}
                    THEN [v EXCEPT !.status = resp.status, !.timer = FALSE, !.sawTerminal = TRUE]
                    ELSE [v EXCEPT !.status = resp.status]
               ELSE [v EXCEPT !.error = resp.error, !.sawFailure = TRUE]
  /\ UNCHANGED <<answer, call, resize, env, now, db, originals, processed, tasks>>

(* pollStatus() resumes with the response of one of its fetches *)
pollStatus ==
  /\ \E i \in 1..Len(view.inflight) :
       LET resp == view.inflight[i]
           v == [view EXCEPT !.inflight = RemoveAt(@, i)]
       IN /\ resp # NoResp
          /\ view' =
               IF v.component = "ImageEdit" /\ ~v.isMounted THEN v
               ELSE IF resp.code \in 200..299
               THEN IF resp.status \in {"completed", "failed"}
                    THEN [v EXCEPT !.status = resp.status, !.timer = FALSE, !.sawTerminal = TRUE]
                    ELSE [v EXCEPT !.status = resp.status]
               ELSE [v EXCEPT !.error = resp.error, !.timer = FALSE, !.sawFailure = TRUE]
  /\ UNCHANGED <<answer, call, resize, env, now, db, originals, processed, tasks>>

ViewUnmount_KeepsTimer ==
  /\ view.mounted
  /\ view' = [view EXCEPT !.mounted = FALSE, !.isMounted = FALSE, !.torn = TRUE]
  /\ UNCHANGED <<answer, call, resize, env, now, db, originals, processed, tasks>>

(* the effect's cleanup: unmount, or imageId changes *)
ViewUnmount ==
  /\ view.mounted
  /\ view' = [view EXCEPT !.mounted = FALSE, !.isMounted = FALSE, !.timer = FALSE,
                          !.torn = TRUE]
  /\ UNCHANGED <<answer, call, resize, env, now, db, originals, processed, tasks>>

(* ------------------- one call of BackgroundRemovalService -------------- *)
(* The class exists in two files.  A call enters through removeBackground
   or, to exercise a provider method on its own, through that method.      *)
WaitStepMs == timeoutMs \div 2

ClipdropOutcomes == {"ok", "Clipdrop API error: 403", "fetch failed"}

(* mockBackgroundRemoval is awaited *)
Mocking(c) == [c EXCEPT !.state = "mocking"]

(* the call rejects with e *)
Rejects(c, e) == [c EXCEPT !.state = "done", !.error = e]

(* an error thrown inside the try block of removeBackground: its catch
   substitutes the mock in development and rethrows otherwise; a provider
   method entered on its own just rejects *)
Thrown(c, e) ==
  IF c.entry = "removeBackground" /\ env.nodeEnv = "development" THEN Mocking(c)
  ELSE Rejects(c, e)

(* a provider method fails with e *)
ProviderFailed(c, e) == Thrown([c EXCEPT !.providerError = e], e)

(* a provider method up to its await of fetch: without its key it throws;
   only removeBackgroundWithRemoveBg of part_000 arms the 60 s abort *)
ProviderBegin(c, provider) ==
  LET key == IF provider = "remove.bg" THEN env.apiKey ELSE c.clipdropKey
      d == [c EXCEPT !.service = provider]
  IN IF key = ""
     THEN ProviderFailed(d, IF provider = "remove.bg"
                            THEN "Remove.bg API key is not configured"
                            ELSE "Clipdrop API key is not configured")
     ELSE [d EXCEPT !.state = "waiting",
                    !.abortTimer = (c.file = "part_000" /\ provider = "remove.bg")]

(* the call is made and runs to its first await *)
CallStart ==
  /\ call = NoCall
  /\ \E file \in SourceFiles, entry \in Entries, service \in Services, ck \in ClipdropKeys :
       LET c == [NoCall EXCEPT !.file = file, !.entry = entry, !.service = service,
                               !.clipdropKey = ck]
       IN call' =
            IF entry = "removeBackgroundWithRemoveBg" THEN ProviderBegin(c, "remove.bg")
            ELSE IF entry = "removeBackgroundWithClipdrop" THEN ProviderBegin(c, "clipdrop")
            ELSE IF file = "part_000" THEN Mocking(c)
            ELSE IF service \in {"remove.bg", "clipdrop"} THEN ProviderBegin(c, service)
            ELSE IF env.nodeEnv = "development" /\ env.apiKey = "" THEN Mocking(c)
            ELSE Thrown(c, "Unsupported background removal service")
  /\ UNCHANGED <<answer, view, resize, env, now, db, originals, processed, tasks>>

(* the provider answers the request *)
ProviderAnswers ==
  /\ call.state = "waiting"
  /\ \E a \in IF call.service = "remove.bg" THEN RemoveBgProviderOutcomes(env)
              ELSE ClipdropOutcomes :
       call' = IF a = "ok" THEN [call EXCEPT !.state = "done", !.result = "cutout"]
               ELSE ProviderFailed(call, a)
  /\ UNCHANGED <<answer, view, resize, env, now, db, originals, processed, tasks>>

(* time passes without an answer; an armed abort timer fires at 60 s and
   the AbortError is rethrown as the timeout error *)
ProviderWaits ==
  /\ call.state = "waiting"
  /\ call.elapsed < MaxWaitTicks * WaitStepMs
  /\ LET c == [call EXCEPT !.elapsed = @ + WaitStepMs]
     IN call' = IF c.abortTimer /\ c.elapsed >= timeoutMs
                THEN ProviderFailed(c, "Remove.bg request timed out after 60 seconds")
                ELSE c
  /\ UNCHANGED <<answer, view, resize, env, now, db, originals, processed, tasks>>

(* mockBackgroundRemoval resolves with its input *)
mockBackgroundRemoval ==
  /\ call.state = "mocking"
  /\ call' = [call EXCEPT !.state = "done", !.result = "input", !.mocked = TRUE]
  /\ UNCHANGED <<answer, view, resize, env, now, db, originals, processed, tasks>>

(* -------------------- ImageProcessor.resizeIfNeeded -------------------- *)
(* Math.round(n / d) for n >= 0 and d > 0.  The quotient is a double that
   was itself computed from the double width / height, so where the exact
   quotient lies halfway between two integers the result is either one.   *)
MathRound(n, d) ==
  LET k == n \div d
      twice == 2 * (n % d)
  IN IF twice < d THEN {k} ELSE IF twice > d THEN {k + 1} ELSE {k, k + 1}

Fits(width, height, maxWidth, maxHeight) == width <= maxWidth /\ height <= maxHeight

(* the first pass from the width bound, without the second pass *)
resizeTargets_SinglePass(width, height, maxWidth, maxHeight) ==
  { <<maxWidth, nh>> : nh \in MathRound(maxWidth * height, width) }

(* newWidth and newHeight: aspectRatio = width / height,
   newHeight = round(maxWidth / aspectRatio) and, where that exceeds
   maxHeight, newHeight = maxHeight, newWidth = round(newHeight * aspectRatio) *)
resizeTargets(width, height, maxWidth, maxHeight) ==
  UNION { IF nh > maxHeight
          THEN { <<nw, maxHeight>> : nw \in MathRound(maxHeight * width, height) }
          ELSE { <<maxWidth, nh>> }
        : nh \in MathRound(maxWidth * height, width) }

(* the image is within maxDimensions: the buffer is returned as it is *)
ResizeNotNeeded ==
  /\ resize.state = "called"
  /\ Fits(resize.width, resize.height, resize.maxWidth, resize.maxHeight)
  /\ resize' = [resize EXCEPT !.state = "unchanged"]
  /\ UNCHANGED <<answer, view, call, env, now, db, originals, processed, tasks>>

(* the image exceeds maxDimensions: the target dimensions are computed *)
ResizeCompute ==
  /\ resize.state = "called"
  /\ ~Fits(resize.width, resize.height, resize.maxWidth, resize.maxHeight)
  /\ \E t \in resizeTargets(resize.width, resize.height, resize.maxWidth, resize.maxHeight) :
       resize' = [resize EXCEPT !.state = "computed", !.newWidth = t[1], !.newHeight = t[2]]
  /\ UNCHANGED <<answer, view, call, env, now, db, originals, processed, tasks>>

(* sharp(buffer).resize(newWidth, newHeight, ...): sharp accepts positive
   integers only and throws on anything else *)
sharpResize ==
  /\ resize.state = "computed"
  /\ resize' = [resize EXCEPT !.state =
                  IF resize.newWidth >= 1 /\ resize.newHeight >= 1 THEN "resized" ELSE "threw"]
  /\ UNCHANGED <<answer, view, call, env, now, db, originals, processed, tasks>>

(* ------------------------ time and expiry ------------------------------ *)
ClockStepMs == RetentionMs + 1

(* time passes *)
ClockAdvance ==
  /\ now < MaxClockSteps * ClockStepMs
  /\ now' = now + ClockStepMs
  /\ UNCHANGED <<answer, view, call, resize, env, db, originals, processed, tasks>>

(* the records the cleanup selects: WHERE expires_at < NOW() *)
Expired(d, at) == {j \in DOMAIN d : Exists(d, j) /\ d[j].expires_at < at}

(* SELECT cleanup_expired_images(): deletes the record of every expired
   image; the function leaves the storage objects to the application *)
cleanup_expired_images ==
  /\ db' = [j \in DOMAIN db |-> IF j \in Expired(db, now) THEN NoJob ELSE db[j]]
  /\ UNCHANGED <<answer, view, call, resize, env, now, originals, processed, tasks>>

(* ------------- GET /api/images/session/[sessionId] --------------------- *)
Range(q) == {q[i] : i \in DOMAIN q}

(* .order('created_at', { ascending: false }): the rows in an order of
   non-increasing created_at; rows of equal created_at come in any order *)
OrderedByCreatedAtDesc(d, S) ==
  {q \in [1 .. Cardinality(S) -> S] :
     /\ Range(q) = S
     /\ \A i, j \in DOMAIN q : i < j => d[q[i]].created_at >= d[q[j]].created_at}

(* the handler: one query, then the response *)
listBySession ==
  /\ \E sessionId \in SessionInputs \cup {tasks[t].session : t \in DOMAIN tasks}, o \in DbOutcomes :
       IF sessionId = ""
       THEN answer' = [NoAnswer EXCEPT !.kind = "list", !.code = 400]
       ELSE IF o # "ok"
       THEN answer' = [NoAnswer EXCEPT !.kind = "list", !.code = 500, !.sessionId = sessionId]
       ELSE \E q \in OrderedByCreatedAtDesc(db, SessionImages(db, sessionId)) :
              answer' = [NoAnswer EXCEPT !.kind = "list", !.code = 200, !.sessionId = sessionId,
                                         !.images = q, !.total = Len(q)]
  /\ UNCHANGED <<view, call, resize, env, now, db, originals, processed, tasks>>

(* ------------------- the public share page ----------------------------- *)
getPublicImage_AnyStatus(d, id, o) ==
  IF o = "ok" /\ Exists(d, id) THEN d[id] ELSE NoJob

(* select('*').eq('id', id).eq('status', 'completed').single(): the row, or
   null on an error or when no row matches *)
getPublicImage(d, id, o) ==
  IF o = "ok" /\ Exists(d, id) /\ d[id].status = "completed" THEN d[id] ELSE NoJob

(* HostImagePage: notFound() without image data or without a processedUrl *)
HostImagePage ==
  /\ \E id \in TaskIds, o \in DbOutcomes :
       LET imageData == getPublicImage(db, id, o)
       IN answer' =
            IF imageData = NoJob \/ imageData.processed_url = NULL
            THEN [NoAnswer EXCEPT !.kind = "share", !.code = 404, !.id = id]
            ELSE [NoAnswer EXCEPT !.kind = "share", !.code = 200, !.id = id,
                                  !.processedUrl = imageData.processed_url,
                                  !.originalUrl = imageData.original_url]
  /\ UNCHANGED <<view, call, resize, env, now, db, originals, processed, tasks>>

(* ------------- ImageProcessor of part_001 ------------------------------ *)
(* updateProcessingStatus races the update against a 10 second timer; the
   update that loses the race is not cancelled and stays in flight.  This
   processImage calls uploadToStorage on the original buffer right after the
   'processing' update.                                                     *)
TimedOutcomes == DbOutcomes \cup {"timeout"}

TimedError(o) ==
  IF o = "timeout" THEN "Database update timeout after 10 seconds"
  ELSE "DB update failed"

(* the invocation after an update answered o, or was abandoned *)
Abandon(r, fields, o) ==
  IF o = "timeout" THEN [r EXCEPT !.abandoned = Append(@, fields)] ELSE r

part001_updateProcessingStatus_processing(t) ==
  /\ HasPc(t, "pi_processing")
  /\ \E o \in TimedOutcomes :
       LET r == Abandon(Logged(tasks[t], "processing"), ProcessingFields, o)
       IN /\ db' = Updated(db, r.id, ProcessingFields, o)
          /\ SetTask(t, IF o = "ok" THEN [r EXCEPT !.pc = "pi_upload"]
                        ELSE Catch(r, TimedError(o)))
  /\ UNCHANGED <<answer, view, call, resize, env, now, originals, processed>>

part001_updateProcessingStatus_completed(t) ==
  /\ HasPc(t, "pi_completed")
  /\ \E o \in TimedOutcomes :
       LET fields == CompletedFields(t, now - tasks[t].startTime)
           r == Abandon(Logged(tasks[t], "completed"), fields, o)
       IN /\ db' = Updated(db, r.id, fields, o)
          /\ SetTask(t, IF o = "ok" THEN Return(r) ELSE Catch(r, TimedError(o)))
  /\ UNCHANGED <<answer, view, call, resize, env, now, originals, processed>>

part001_updateProcessingStatus_failed(t) ==
  /\ HasPc(t, "pi_failed")
  /\ \E o \in TimedOutcomes :
       LET fields == FailedFieldsTimed(tasks[t].err, now - tasks[t].startTime)
           r == Abandon(Logged(tasks[t], "failed"), fields, o)
       IN /\ db' = Updated(db, r.id, fields, o)
          /\ SetTask(t, Throw(r, IF o = "ok" THEN r.err ELSE TimedError(o)))
  /\ UNCHANGED <<answer, view, call, resize, env, now, originals, processed>>

(* an update that lost its race reaches the database, or fails there *)
AbandonedUpdateLands(t) ==
  /\ t \in 1..Len(tasks)
  /\ \E i \in 1..Len(tasks[t].abandoned), o \in DbOutcomes :
       /\ db' = Updated(db, tasks[t].id, tasks[t].abandoned[i], o)
       /\ SetTask(t, [tasks[t] EXCEPT !.abandoned = RemoveAt(@, i)])
  /\ UNCHANGED <<answer, view, call, resize, env, now, originals, processed>>

Next ==
  \/ UploadStart
  \/ UploadInlineStart
  \/ \E t \in TaskIds : UploadInlineInsert(t)
  \/ \E t \in TaskIds : UploadInlineProcessing(t)
  \/ \E t \in TaskIds : UploadInlineStoreProcessed(t)
  \/ \E t \in TaskIds : UploadInlineCompleted(t)
  \/ \E t \in TaskIds : UploadInlineFailed(t)
  \/ \E t \in TaskIds : UploadStoreOriginal(t)
  \/ \E t \in TaskIds : UploadInsert(t)
  \/ \E t \in TaskIds : UploadCleanup(t)
  \/ \E t \in TaskIds : processImageInBackground_processing(t)
  \/ \E t \in TaskIds : updateProcessingStatus_processing(t)
  \/ \E t \in TaskIds : resizeIfNeeded(t)
  \/ \E t \in TaskIds : removeBackgroundFn(t)
  \/ \E t \in TaskIds : flipHorizontally(t)
  \/ \E t \in TaskIds : convertToOutputFormat(t)
  \/ \E t \in TaskIds : uploadToStorage(t)
  \/ \E t \in TaskIds : updateProcessingStatus_completed(t)
  \/ \E t \in TaskIds : updateProcessingStatus_failed(t)
  \/ \E t \in TaskIds : processImageInBackground_failed(t)
  \/ ProcessStart
  \/ \E t \in TaskIds : ProcessProcessing(t)
  \/ \E t \in TaskIds : fetchImageFromStorage(t)
  \/ \E t \in TaskIds : processImageBuffer(t)
  \/ \E t \in TaskIds : uploadProcessedImageToStorage(t)
  \/ \E t \in TaskIds : processImageSynchronously_completed(t)
  \/ \E t \in TaskIds : processImageSynchronously_failed(t)
  \/ \E t \in TaskIds : ProcessFailed(t)
  \/ ProcessByIdStart
  \/ \E t \in TaskIds : ProcessByIdProcessing(t)
  \/ \E t \in TaskIds : ProcessByIdDownload(t)
  \/ \E t \in TaskIds : ProcessByIdDownloadFailed(t)

Spec == Init /\ [][Next]_vars
(* ------------- the upload pipeline with DELETE and the debug update ---- *)
NextClient ==
  \/ UploadStart
  \/ \E t \in TaskIds : UploadStoreOriginal(t)
  \/ \E t \in TaskIds : UploadInsert(t)
  \/ \E t \in TaskIds : UploadCleanup(t)
  \/ \E t \in TaskIds : processImageInBackground_processing(t)
  \/ \E t \in TaskIds : updateProcessingStatus_processing(t)
  \/ \E t \in TaskIds : resizeIfNeeded(t)
  \/ \E t \in TaskIds : removeBackgroundFn(t)
  \/ \E t \in TaskIds : flipHorizontally(t)
  \/ \E t \in TaskIds : convertToOutputFormat(t)
  \/ \E t \in TaskIds : uploadToStorage(t)
  \/ \E t \in TaskIds : updateProcessingStatus_completed(t)
  \/ \E t \in TaskIds : updateProcessingStatus_failed(t)
  \/ \E t \in TaskIds : processImageInBackground_failed(t)
  \/ DeleteStart
  \/ \E t \in TaskIds : DeleteRecord(t)
  \/ \E t \in TaskIds : DeleteRemoveOriginal(t)
  \/ \E t \in TaskIds : DeleteRemoveProcessed(t)
  \/ DebugUpdate

SpecClient == Init /\ [][NextClient]_vars

(* ------------- one polling view over uploads and deletes --------------- *)
InitPoll == Init /\ env = [nodeEnv |-> "development", apiKey |-> ""]

NextPoll ==
  \/ UploadInlineStart
  \/ \E t \in TaskIds : UploadStoreOriginal(t)
  \/ \E t \in TaskIds : UploadInlineInsert(t)
  \/ \E t \in TaskIds : UploadCleanup(t)
  \/ \E t \in TaskIds : UploadInlineProcessing(t)
  \/ \E t \in TaskIds : UploadInlineStoreProcessed(t)
  \/ \E t \in TaskIds : UploadInlineCompleted(t)
  \/ \E t \in TaskIds : UploadInlineFailed(t)
  \/ DeleteStart
  \/ \E t \in TaskIds : DeleteRecord(t)
  \/ \E t \in TaskIds : DeleteRemoveOriginal(t)
  \/ \E t \in TaskIds : DeleteRemoveProcessed(t)
  \/ ViewMount
  \/ ViewTick
  \/ GET
  \/ pollStatus
  \/ ViewUnmount

SpecPoll == InitPoll /\ [][NextPoll]_vars

(* ------------- one call of the background-removal service -------------- *)
NextProvider ==
  \/ CallStart
  \/ ProviderAnswers
  \/ ProviderWaits
  \/ mockBackgroundRemoval

SpecProvider == Init /\ [][NextProvider]_vars

(* --------------- resizeIfNeeded on every image and maximum ------------- *)
InitResize ==
  /\ env = [nodeEnv |-> "development", apiKey |-> ""]
  /\ now = 0
  /\ db = [i \in TaskIds |-> NoJob]
  /\ originals = {}
  /\ processed = {}
  /\ tasks = <<>>
  /\ view = NoView
  /\ call = NoCall
  /\ answer = NoAnswer
  /\ resize \in [state : {"called"}, width : Sides, height : Sides,
                 maxWidth : Sides, maxHeight : Sides,
                 newWidth : {0}, newHeight : {0}]

NextResize ==
  \/ ResizeNotNeeded
  \/ ResizeCompute
  \/ sharpResize

SpecResize == InitResize /\ [][NextResize]_vars

(* ------------- uploads, the clock and the store's functions ------------ *)
NextStore ==
  \/ UploadInlineStart
  \/ \E t \in TaskIds : UploadStoreOriginal(t)
  \/ \E t \in TaskIds : UploadInlineInsert(t)
  \/ \E t \in TaskIds : UploadCleanup(t)
  \/ \E t \in TaskIds : UploadInlineProcessing(t)
  \/ \E t \in TaskIds : UploadInlineStoreProcessed(t)
  \/ \E t \in TaskIds : UploadInlineCompleted(t)
  \/ \E t \in TaskIds : UploadInlineFailed(t)
  \/ ClockAdvance
  \/ cleanup_expired_images
  \/ listBySession

SpecStore == InitPoll /\ [][NextStore]_vars

(* ------------- the share page over uploads, deletes and updates -------- *)
InitShare == Init /\ env = [nodeEnv |-> "production", apiKey |-> "valid-key"]

NextShare ==
  \/ UploadStart
  \/ \E t \in TaskIds : UploadStoreOriginal(t)
  \/ \E t \in TaskIds : UploadInsert(t)
  \/ \E t \in TaskIds : UploadCleanup(t)
  \/ \E t \in TaskIds : processImageInBackground_processing(t)
  \/ \E t \in TaskIds : updateProcessingStatus_processing(t)
  \/ \E t \in TaskIds : resizeIfNeeded(t)
  \/ \E t \in TaskIds : removeBackgroundFn(t)
  \/ \E t \in TaskIds : flipHorizontally(t)
  \/ \E t \in TaskIds : convertToOutputFormat(t)
  \/ \E t \in TaskIds : uploadToStorage(t)
  \/ \E t \in TaskIds : updateProcessingStatus_completed(t)
  \/ \E t \in TaskIds : updateProcessingStatus_failed(t)
  \/ \E t \in TaskIds : processImageInBackground_failed(t)
  \/ DeleteStart
  \/ \E t \in TaskIds : DeleteRecord(t)
  \/ \E t \in TaskIds : DeleteRemoveOriginal(t)
  \/ \E t \in TaskIds : DeleteRemoveProcessed(t)
  \/ DebugUpdate
  \/ HostImagePage

SpecShare == InitShare /\ [][NextShare]_vars

(* ------------- uploads processed by the ImageProcessor of part_001 ----- *)
NextPart001 ==
  \/ UploadStart
  \/ \E t \in TaskIds : UploadStoreOriginal(t)
  \/ \E t \in TaskIds : UploadInsert(t)
  \/ \E t \in TaskIds : UploadCleanup(t)
  \/ \E t \in TaskIds : processImageInBackground_processing(t)
  \/ \E t \in TaskIds : part001_updateProcessingStatus_processing(t)
  \/ \E t \in TaskIds : uploadToStorage(t)
  \/ \E t \in TaskIds : part001_updateProcessingStatus_completed(t)
  \/ \E t \in TaskIds : part001_updateProcessingStatus_failed(t)
  \/ \E t \in TaskIds : processImageInBackground_failed(t)
  \/ \E t \in TaskIds : AbandonedUpdateLands(t)

SpecPart001 == InitShare /\ [][NextPart001]_vars

(* ======================= properties ==================================== *)
Jobs == {j \in TaskIds : Exists(db, j)}
Terminal == {"completed", "failed"}
IsUpload(r) == r.kind \in {"upload", "uploadInline"}
Running(j) == \E t \in 1..Len(tasks) : tasks[t].id = j /\ tasks[t].pc # "done"

StatusRank(st) == IF st = "pending" THEN 0 ELSE IF st = "processing" THEN 1 ELSE 2

(* C1: the stored status of a job only moves forward along
   pending -> processing -> {completed, failed}; a terminal status never
   changes again. *)
C1_StatusOnlyMovesForward ==
  [][\A j \in TaskIds :
       (Exists(db, j) /\ Exists(db', j) /\ db'[j].status # db[j].status)
         => StatusRank(db'[j].status) > StatusRank(db[j].status)]_vars

(* C2: for every job record, processed_url is non-null if and only if
   status = completed. *)
C2_ProcessedUrlIffCompleted ==
  \A j \in Jobs : (db[j].processed_url # NULL) <=> (db[j].status = "completed")

(* C3: for every job record, error_message is non-null if and only if
   status = failed. *)
C3_ErrorMessageIffFailed ==
  \A j \in Jobs : (db[j].error_message # NULL) <=> (db[j].status = "failed")

IsStatus(e) == e \in {"processing", "completed", "failed"}
StatusWrites(log) == SelectSeq(log, IsStatus)

(* C4: a pipeline run issues the 'processing' update exactly once, as its
   first step, and a terminal update (completed or failed) exactly once, as
   its last step; it never issues both completed and failed, and never
   issues processing twice. *)
C4_OneProcessingOneTerminalWrite ==
  \A t \in 1..Len(tasks) :
    tasks[t].log # <<>> =>
      LET w == StatusWrites(tasks[t].log)
      IN /\ tasks[t].log[1] = "processing"
         /\ Len(w) <= 2
         /\ Len(w) = 2 => w[2] \in Terminal
         /\ tasks[t].pc = "done" =>
              Len(w) = 2 /\ tasks[t].log[Len(tasks[t].log)] \in Terminal

(* C5: every job reaches completed or failed: once every call of every run
   on the job has been answered, the job is not left pending or processing. *)
C5_FinishedRunsLeaveJobTerminal ==
  \A j \in Jobs : ~Running(j) => db[j].status \in Terminal

(* C6: when a step of a run fails after the job record exists, the job ends
   failed with an error message and a processing time, and the run rejects
   with the error of the step that failed. *)
C6_FailureIsRecordedAndPropagated ==
  \A t \in 1..Len(tasks) :
    (tasks[t].pc = "done" /\ tasks[t].cause # "" /\ Exists(db, tasks[t].id)) =>
      /\ db[tasks[t].id].status = "failed"
      /\ db[tasks[t].id].error_message # NULL
      /\ db[tasks[t].id].processing_time_ms # NULL
      /\ tasks[t].thrown = tasks[t].cause

OversizedOrDisallowed(file) ==
  \/ file.size > 50 * 1024 * 1024
  \/ file.type \notin {"image/jpeg", "image/png", "image/webp", "image/gif"}

RejectedWith(r, code) ==
  /\ r.pc = "done" /\ r.resp.code = code /\ r.resp.id = NoId
  /\ r.inserted = 0 /\ r.log = <<>>

(* C7: an upload whose file is larger than 50MB or of a disallowed MIME
   type is answered 400 on arrival, in a step that leaves the table and
   both buckets (hence listBySession of its session) unchanged, and the
   request never does anything afterwards. *)
C7_InvalidFileRejectedWithoutState ==
  [][\A t \in 1..Len(tasks') :
       (IsUpload(tasks'[t]) /\ tasks'[t].file # NoFile
          /\ OversizedOrDisallowed(tasks'[t].file)) =>
         IF t > Len(tasks)
         THEN /\ RejectedWith(tasks'[t], 400)
              /\ db' = db /\ originals' = originals /\ processed' = processed
              /\ SessionImages(db', tasks'[t].session) = SessionImages(db, tasks'[t].session)
         ELSE tasks'[t] = tasks[t]]_vars

C7_Witness ==
  \E t \in 1..Len(tasks) :
    /\ IsUpload(tasks[t]) /\ tasks[t].file # NoFile
    /\ OversizedOrDisallowed(tasks[t].file)
    /\ RejectedWith(tasks[t], 400)
    /\ SessionImages(db, tasks[t].session) # {}

ConfigRejected(t) ==
  /\ RejectedWith(tasks[t], 500)
  /\ tasks[t].resp.error = "Service configuration error"
  /\ t \notin originals /\ ~Exists(db, t)

AcceptableUpload(t) ==
  /\ tasks[t].kind = "upload" /\ tasks[t].file # NoFile
  /\ ~OversizedOrDisallowed(tasks[t].file)

(* C8 as stated: in production, an upload is rejected with a configuration
   error, and nothing is stored, when the provider credential is missing or
   invalid. *)
C8_MissingOrInvalidKeyRejected ==
  (env.nodeEnv = "production" /\ env.apiKey \in {"", "invalid-key"}) =>
    \A t \in 1..Len(tasks) : AcceptableUpload(t) => ConfigRejected(t)

(* C8 amended: in production, an upload to the handler that validates the
   service configuration is rejected with a configuration error (500), with
   no blob, no record, no processing and no job id, when the provider
   credential is missing. *)
C8_MissingKeyRejected ==
  (env.nodeEnv = "production" /\ env.apiKey = "") =>
    \A t \in 1..Len(tasks) : AcceptableUpload(t) => ConfigRejected(t)

C8_Witness ==
  /\ env.nodeEnv = "production" /\ env.apiKey = ""
  /\ \E t \in 1..Len(tasks) : AcceptableUpload(t) /\ ConfigRejected(t)

InsertFailedResp == ErrorResp(500, "Failed to create image record")

(* C9: when the insert fails after the original was stored, the handler
   issues the removal of that blob before it answers; it then answers 500
   'Failed to create image record' whatever the removal answered, no record
   exists, no processing starts, and when the removal succeeded the blob is
   gone and stays gone. *)
C9_InsertFailureCleansUp ==
  [][\A t \in 1..Len(tasks) :
       IsUpload(tasks[t]) =>
         /\ (tasks[t].pc = "insert" /\ tasks'[t] # tasks[t] /\ ~Exists(db', t)) =>
              /\ tasks'[t].pc = "cleanup" /\ tasks'[t].resp = NoResp
              /\ t \in originals' /\ db' = db
         /\ (tasks[t].pc = "cleanup" /\ tasks'[t] # tasks[t]) =>
              /\ tasks'[t].pc = "done" /\ tasks'[t].resp = InsertFailedResp
              /\ tasks'[t].cleanup # ""
              /\ tasks'[t].inserted = 0 /\ tasks'[t].log = <<>>
              /\ db' = db /\ ~Exists(db', t)
              /\ tasks'[t].cleanup = "ok" => t \notin originals'
         /\ (tasks[t].pc = "done" /\ tasks[t].resp = InsertFailedResp) =>
              /\ tasks'[t] = tasks[t] /\ ~Exists(db', t)
              /\ t \notin originals => t \notin originals'
         /\ (tasks'[t].resp = InsertFailedResp) => tasks[t].pc \in {"cleanup", "done"}]_vars

C9_Witness ==
  \E t \in 1..Len(tasks) :
    /\ IsUpload(tasks[t]) /\ tasks[t].resp = InsertFailedResp
    /\ tasks[t].cleanup = "ok" /\ t \notin originals /\ ~Exists(db, t)

(* C10: an upload that answers success has created exactly one record,
   whose id is the id answered, and answers status 'pending' with the
   original URL and the session id; the record is created pending with
   processed_url and error_message null and expires_at = creation time +
   24 hours; an upload that answers an error has created no record. *)
C10_UploadCreatesOnePendingJob ==
  [][/\ \A j \in TaskIds :
          (~Exists(db, j) /\ Exists(db', j)) =>
            /\ db'[j].status = "pending"
            /\ db'[j].processed_url = NULL /\ db'[j].error_message = NULL
            /\ db'[j].expires_at = db'[j].created_at + 24 * 60 * 60 * 1000
     /\ \A t \in 1..Len(tasks') :
          (IsUpload(tasks'[t]) /\ tasks'[t].resp # NoResp) =>
            IF tasks'[t].resp.code = 200 /\ tasks'[t].resp.error = ""
            THEN /\ tasks'[t].inserted = 1
                 /\ tasks'[t].resp.id = t
                 /\ tasks'[t].resp.status = "pending"
                 /\ tasks'[t].resp.originalUrl = t
                 /\ tasks'[t].resp.sessionId = tasks'[t].session
            ELSE tasks'[t].inserted = 0]_vars


DeleteTasks == {t \in 1..Len(tasks) : tasks[t].kind = "delete"}
InLog(r, e) == \E i \in 1..Len(r.log) : r.log[i] = e
RecordDeleted(r) ==
  \/ r.pc \in {"dl_rm_original", "dl_rm_processed"}
  \/ r.pc = "done" /\ r.resp = DeletedResp(r.id)

(* C11: delete removes the record before it attempts a blob removal; when
   the record deletion fails it answers an error and attempts no removal;
   once the record is deleted the response is success whatever the removals
   answer, the record stays deleted, and both removals are attempted. *)
C11_DeleteRecordFirstThenBothBlobs ==
  \A t \in DeleteTasks :
    LET r == tasks[t]
    IN /\ (InLog(r, "remove original") \/ InLog(r, "remove processed")) =>
            (r.log[1] = "delete record" /\ RecordDeleted(r))
       /\ RecordDeleted(r) => ~Exists(db, r.id)
       /\ (r.pc = "done" /\ r.resp.code = 500) => r.log = <<"delete record">>
       /\ (r.pc = "done" /\ InLog(r, "remove original")) => r.resp = DeletedResp(r.id)
       /\ (r.pc = "done" /\ r.resp = DeletedResp(r.id)) =>
            (InLog(r, "remove original") /\ InLog(r, "remove processed"))

(* C12: once delete(id) has deleted the record, and so after it has
   answered success, getStatus(id) answers not-found and no listBySession
   lists the id, whether or not the blobs were removed and also when a
   pipeline run of the job writes a status afterwards. *)
C12_DeletedJobStaysNotFound ==
  \A t \in DeleteTasks :
    RecordDeleted(tasks[t]) =>
      /\ \A o \in DbOutcomes : getStatus(db, tasks[t].id, o).code = 404
      /\ tasks[t].id \notin SessionImages(db, tasks[t].snapshot.user_session_id)
      /\ \A u \in 1..Len(tasks) : tasks[t].id \notin SessionImages(db, tasks[u].session)

C12_Witness ==
  \E t \in DeleteTasks, u \in 1..Len(tasks) :
    /\ tasks[t].pc = "done" /\ tasks[t].resp = DeletedResp(tasks[t].id)
    /\ tasks[u].kind = "upload" /\ tasks[u].id = tasks[t].id
    /\ tasks[u].late /\ tasks[u].pc = "done"
    /\ tasks[t].snapshot.original_url \in originals

PipelineKinds == {"upload", "uploadInline", "process", "processById"}
RunsOn(j) ==
  {t \in 1..Len(tasks) :
     tasks[t].kind \in PipelineKinds /\ tasks[t].id = j
       /\ \E i \in 1..Len(tasks[t].log) : IsStatus(tasks[t].log[i])}

(* C14: for any job at most one pipeline run is ever started, and a process
   request that answers 'processing' has written nothing to the record. *)
C14_AtMostOneRunPerJob ==
  /\ \A j \in TaskIds : Cardinality(RunsOn(j)) <= 1
  /\ \A t \in 1..Len(tasks) :
       (tasks[t].kind \in {"process", "processById"}
          /\ tasks[t].resp = StatusResp(tasks[t].id, "processing")) => tasks[t].log = <<>>

(* C15: a job record that exists is changed only by a step of a pipeline
   run or of the delete handler. *)
C15_OnlyPipelineAndDeleteChangeJobs ==
  [][\A j \in TaskIds :
       (Exists(db, j) /\ db'[j] # db[j]) =>
         \E t \in 1..Len(tasks') :
           /\ t > Len(tasks) \/ tasks'[t] # tasks[t]
           /\ tasks'[t].kind \in PipelineKinds \cup {"delete"}]_vars

(* C13: getStatus and delete for an id without a record answer 404 in a
   step that changes no record and no blob, and the delete request does
   nothing afterwards (no record deletion, no blob removal). *)
C13_UnknownIdNotFoundWithoutEffect ==
  [][/\ \A i \in 1..Len(view.inflight) :
          (Len(view'.inflight) = Len(view.inflight) /\ view.inflight[i] = NoResp
             /\ view'.inflight[i] \notin {NoResp, NetworkError}
             /\ ~Exists(db, view.imageId)) =>
            /\ view'.inflight[i] = ErrorResp(404, "Image not found")
            /\ db' = db /\ originals' = originals /\ processed' = processed
            /\ tasks' = tasks
     /\ \A t \in 1..Len(tasks') :
          (tasks'[t].kind = "delete" /\ t > Len(tasks) /\ tasks'[t].id # NoId
             /\ ~Exists(db, tasks'[t].id)) =>
            /\ tasks'[t].pc = "done" /\ tasks'[t].log = <<>>
            /\ tasks'[t].resp = ErrorResp(404, "Image not found")
            /\ db' = db /\ originals' = originals /\ processed' = processed
     /\ \A t \in DeleteTasks :
          (tasks[t].pc = "done" /\ tasks[t].resp.code = 404) => tasks'[t] = tasks[t]]_vars

C13_Witness ==
  /\ Jobs # {} /\ originals # {}
  /\ ~Exists(db, view.imageId)
  /\ \E i \in 1..Len(view.inflight) : view.inflight[i] = ErrorResp(404, "Image not found")
  /\ \E t \in DeleteTasks :
       /\ tasks[t].resp = ErrorResp(404, "Image not found")
       /\ tasks[t].id # NoId /\ tasks[t].log = <<>>

(* C16: mounting the view starts one status fetch at once and the 2-second
   interval; afterwards a fetch is started only by an interval callback, one
   per callback, 2 seconds after the previous one was due; and once a
   response with status completed or failed was handled no fetch is
   started. *)
C16_PollsUntilTerminal ==
  [][/\ (view = NoView /\ view' # NoView) =>
          /\ view'.fetches = 1 /\ view'.inflight = <<NoResp>>
          /\ view'.timer /\ view'.nextFire = now + 2000
     /\ (view # NoView /\ view'.fetches # view.fetches) =>
          /\ view.timer /\ ~view.sawTerminal
          /\ view'.fetches = view.fetches + 1 /\ view'.ticks = view.ticks + 1
          /\ view'.nextFire = view.nextFire + 2000
          /\ view'.inflight = Append(view.inflight, NoResp)
     /\ (view # NoView /\ view'.ticks # view.ticks) => view'.fetches = view.fetches + 1
     /\ view'.sawTerminal => ~view'.timer
     /\ view.sawTerminal => view'.sawTerminal]_vars

C16_Witness ==
  /\ view.mounted /\ view.sawTerminal /\ view.status \in Terminal
  /\ view.fetches = 2 /\ view.ticks = 1 /\ view.inflight # <<>>

(* C17: once a failed status fetch (network error or non-OK response) was
   handled, the error is stored, the interval is cleared and no status
   fetch is started any more. *)
C17_FetchFailureStopsPolling ==
  [][/\ view'.sawFailure => (view'.error # "" /\ ~view'.timer)
     /\ view.sawFailure => (view'.sawFailure /\ view'.fetches = view.fetches)]_vars

C17_Witness ==
  /\ view.mounted /\ view.sawFailure /\ view.error = "Image not found"
  /\ view.ticks < MaxTicks /\ view.inflight # <<>>
  /\ \E t \in DeleteTasks : tasks[t].id = view.imageId /\ RecordDeleted(tasks[t])

(* C18: the cleanup of the polling effect clears the interval: after the
   teardown no status fetch is started, whatever the job's status. *)
C18_TeardownStopsPolling ==
  [][/\ view'.torn => ~view'.timer
     /\ view.torn => (view'.torn /\ view'.fetches = view.fetches)]_vars

C18_Witness ==
  /\ view.torn /\ ~view.sawTerminal /\ ~view.sawFailure
  /\ view.component = "ImageResult" /\ view.ticks < MaxTicks
  /\ Exists(db, view.imageId) /\ db[view.imageId].status = "processing"

TimeoutErrors ==
  {"Remove.bg request timed out after 60 seconds",
   "Clipdrop request timed out after 60 seconds"}

(* C19: a provider request that is not answered within 60 seconds is
   aborted: no request is still waiting at 60 seconds, and a call that
   waited that long has failed with a timeout error and without a result,
   for each provider. *)
C19_ProviderTimeoutAfter60s ==
  /\ call.state = "waiting" => call.elapsed < 60000
  /\ (call.state = "done" /\ call.elapsed >= 60000) =>
       (call.error \in TimeoutErrors /\ call.result = "")

(* C20: when the provider call of removeBackground fails, the call returns
   the input bytes (the mock) in a non-production mode and rejects with the
   provider's failure in production mode; in production mode no mock
   result is ever returned. *)
C20_MockFallbackOnlyOutsideProduction ==
  (call.entry = "removeBackground" /\ call.state = "done") =>
    /\ (call.providerError # "" /\ env.nodeEnv # "production") =>
         (call.result = "input" /\ call.mocked /\ call.error = "")
    /\ (call.providerError # "" /\ env.nodeEnv = "production") =>
         (call.error = call.providerError /\ call.result = "")
    /\ env.nodeEnv = "production" => ~call.mocked

Abs(x) == IF x < 0 THEN 0 - x ELSE x

(* x is an integer nearest to n / d *)
Nearest(x, n, d) == 2 * Abs(x * d - n) <= d

ResizeReturned == resize.state \notin {"idle", "called"}

(* C21: resizeIfNeeded returns the input unchanged exactly when the image
   is within the maxima; otherwise the target dimensions are within the
   maxima and within the image's own dimensions, and they are either the
   width bound with the height rounded to the nearest integer, or, when
   that height exceeds its bound, the height bound with the width rounded
   to the nearest integer. *)
C21_ResizeTargetsWithinBounds ==
  ResizeReturned =>
    LET w == resize.width
        h == resize.height
        mw == resize.maxWidth
        mh == resize.maxHeight
        nw == resize.newWidth
        nh == resize.newHeight
    IN /\ (resize.state = "unchanged") <=> (w <= mw /\ h <= mh)
       /\ resize.state # "unchanged" =>
            /\ nw <= mw /\ nh <= mh
            /\ nw <= w /\ nh <= h
            /\ \/ nw = mw /\ Nearest(nh, mw * h, w)
               \/ /\ nh = mh /\ Nearest(nw, mh * w, h)
                  /\ \E nh0 \in 0 .. (mw * h + 1) : Nearest(nh0, mw * h, w) /\ nh0 > mh

C21_Witness ==
  /\ resize.state = "computed"
  /\ resize.newHeight = resize.maxHeight
  /\ resize.newWidth < resize.maxWidth
  /\ resize.newWidth >= 1

(* C30: for an image of at least 1 x 1 that exceeds a maximum, both target
   dimensions computed by resizeIfNeeded are at least 1. *)
C30_ResizeTargetsAtLeastOne ==
  (ResizeReturned /\ resize.state # "unchanged") =>
    (resize.newWidth >= 1 /\ resize.newHeight >= 1)

(* C22: a run of the cleanup removes, for every job whose expires_at lies
   in the past, the record, the original blob and the processed blob, and
   leaves every other job's record and blobs as they are. *)
C22_CleanupRemovesExpiredJobsAndBlobs ==
  [][cleanup_expired_images =>
       \A j \in DOMAIN db :
         Exists(db, j) =>
           IF db[j].expires_at < now
           THEN /\ ~Exists(db', j)
                /\ db[j].original_url \notin originals'
                /\ j \notin processed'
           ELSE /\ db'[j] = db[j]
                /\ (db[j].original_url \in originals) = (db[j].original_url \in originals')
                /\ (j \in processed) = (j \in processed')]_vars

(* C23: the session listing returns exactly the records whose
   user_session_id is the requested session, each once, ordered from the
   newest created_at to the oldest, and total is the number of images
   returned. *)
C23_ListBySessionExactNewestFirst ==
  [][(answer' # answer /\ answer'.kind = "list" /\ answer'.code = 200) =>
       LET q == answer'.images
       IN /\ Range(q) = {j \in DOMAIN db : Exists(db, j)
                                           /\ db[j].user_session_id = answer'.sessionId}
          /\ \A i, j \in DOMAIN q : i # j => q[i] # q[j]
          /\ \A i, j \in DOMAIN q : i < j => db[q[i]].created_at >= db[q[j]].created_at
          /\ answer'.total = Len(q)]_vars

C23_Witness ==
  /\ answer.kind = "list" /\ answer.code = 200
  /\ Len(answer.images) = 2
  /\ Exists(db, answer.images[1]) /\ Exists(db, answer.images[2])
  /\ db[answer.images[1]].created_at > db[answer.images[2]].created_at

(* C29: the share page renders an image only for a job that is completed
   with a processed_url, and then shows exactly that URL; for a job in any
   other state, a deleted job or an unknown id it answers not-found and
   exposes neither URL. *)
C29_SharePageOnlyForCompletedJobs ==
  [][(answer' # answer /\ answer'.kind = "share") =>
       LET id == answer'.id
           shown == Exists(db, id) /\ db[id].status = "completed"
                    /\ db[id].processed_url # NULL
       IN /\ answer'.code = 200 =>
               (shown /\ answer'.processedUrl = db[id].processed_url)
          /\ ~shown =>
               (answer'.code = 404 /\ answer'.processedUrl = NULL
                /\ answer'.originalUrl = NoId)]_vars

C29_Witness ==
  /\ answer.kind = "share" /\ answer.code = 404
  /\ Exists(db, answer.id)
  /\ db[answer.id].status = "failed"
  /\ db[answer.id].processed_url # NULL

ProcessImageKinds == {"upload", "processById"}
PhaseOrder == <<"resize", "removeBackground", "flip", "encode", "persist", "completed">>
IsPhase(e) == \E i \in DOMAIN PhaseOrder : PhaseOrder[i] = e
PhasesOf(log) == SelectSeq(log, IsPhase)
IsPrefix(p, q) == Len(p) <= Len(q) /\ \A i \in 1..Len(p) : p[i] = q[i]

(* C24: in a run of processImage the phases run in the order resize,
   background removal, flip, encode, persist, finalize, each at most once and
   each only after the one before it; a run that ends without a failure has
   run all six; after a failure the run starts no further phase and repeats
   none. *)
C24_PhasesInOrderNoRetry ==
  /\ [](\A t \in 1..Len(tasks) :
          tasks[t].kind \in ProcessImageKinds =>
            /\ IsPrefix(PhasesOf(tasks[t].log), PhaseOrder)
            /\ (tasks[t].pc = "done" /\ tasks[t].cause = "" /\ tasks[t].log # <<>>) =>
                 PhasesOf(tasks[t].log) = PhaseOrder)
  /\ [][\A t \in 1..Len(tasks) :
          (tasks[t].kind \in ProcessImageKinds /\ tasks[t].cause # "") =>
            PhasesOf(tasks'[t].log) = PhasesOf(tasks[t].log)]_vars

(* C26: the status writes of a job take effect in the order its pipeline
   issued them: once a job is stored as failed, no update that lost its
   timeout race stores it as processing or completed afterwards. *)
C26_AbandonedUpdateNeverOverwritesFailed ==
  [][\A j \in TaskIds :
       (Exists(db, j) /\ Exists(db', j) /\ db[j].status = "failed") =>
         db'[j].status \notin {"processing", "completed"}]_vars

UploadFailures == {"Failed to upload to storage", "Upload failed"}
IndexOf(log, e) == CHOOSE i \in 1..Len(log) : log[i] = e

(* C25: a run writes completed only after its upload of the processed blob
   succeeded, and a stored processed_url is the URL of the blob that a run
   on that job uploaded before writing completed; a run whose blob upload
   failed writes no completed, and the job's processed_url stays null unless
   another run on the job uploaded its own blob and wrote completed. *)
C25_CompletedOnlyAfterBlobStored ==
  /\ \A t \in 1..Len(tasks) :
       InLog(tasks[t], "completed") =>
         /\ t \in processed
         /\ InLog(tasks[t], "persist")
         /\ IndexOf(tasks[t].log, "persist") < IndexOf(tasks[t].log, "completed")
  /\ \A j \in Jobs :
       db[j].processed_url # NULL =>
         LET k == db[j].processed_url[1]
         IN k \in processed /\ tasks[k].id = j /\ InLog(tasks[k], "completed")
  /\ \A t \in 1..Len(tasks) :
       tasks[t].cause \in UploadFailures =>
         /\ ~InLog(tasks[t], "completed")
         /\ Exists(db, tasks[t].id) =>
              \/ db[tasks[t].id].processed_url = NULL
              \/ \E u \in 1..Len(tasks) :
                   /\ u # t /\ tasks[u].id = tasks[t].id
                   /\ InLog(tasks[u], "completed")
                   /\ db[tasks[t].id].processed_url = Some(u)

C25_Witness ==
  \E t \in 1..Len(tasks) :
    /\ tasks[t].pc = "done"
    /\ tasks[t].cause = "Failed to upload to storage"
    /\ InLog(tasks[t], "failed")
    /\ Exists(db, tasks[t].id)
    /\ db[tasks[t].id].status = "failed"
    /\ db[tasks[t].id].processed_url = NULL

UploadFields == {"original_url", "file_size", "user_session_id", "expires_at"}

(* C27: from its creation until its deletion a job keeps the original_url,
   file_size, user_session_id and expires_at that the upload stored, under
   its id: no write to an existing record changes them. *)
C27_UploadFieldsNeverChange ==
  [][\A j \in TaskIds :
       (Exists(db, j) /\ Exists(db', j)) =>
         \A f \in UploadFields : db'[j][f] = db[j][f]]_vars

(* C28: when a job is deleted while a pipeline run on it is in flight, then
   once the run and the delete have finished, the run has left no processed
   blob in the blob store, except one the delete request knew from the
   record and tried to remove. *)
C28_NoBlobOutlivesDeletedJob ==
  \A t \in 1..Len(tasks) :
    (/\ tasks[t].kind \in PipelineKinds /\ tasks[t].pc = "done" /\ tasks[t].late
     /\ \E d \in DeleteTasks : tasks[d].id = tasks[t].id /\ tasks[d].pc = "done"
     /\ \A d \in DeleteTasks : tasks[d].pc = "done") =>
      (t \in processed =>
         \E d \in DeleteTasks :
           /\ tasks[d].snapshot # NoJob
           /\ tasks[d].snapshot.processed_url = Some(t))

====
